---- MODULE Spec2Model ----
(***************************************************************************)
(* Tenant-isolated admission layer: per-tier fixed-window rate limiter,    *)
(* BulkheadQueue and CircuitBreaker, wired per tier by the GET /api/data   *)
(* handler.  One action per event-loop callback: the synchronous part of   *)
(* the request handler, the promise reactions (microtasks) that start a    *)
(* task, settle CircuitBreaker.execute and release the bulkhead slot, and  *)
(* the completion of the database query.  A turn of the event loop is one  *)
(* macrotask (the http server calling the handlers of the requests it has  *)
(* read, one after the other, or a query completing) followed by the       *)
(* promise reactions it queued, run in the order they were queued.         *)
(***************************************************************************)
EXTENDS Integers, Sequences, FiniteSets

VARIABLES
  now,        \* Date.now()
  rateState,  \* tier -> [windowStart, count]            (index.js rateState)
  breaker,    \* tier -> CircuitBreaker fields           (resources[tier].circuitBreaker)
  bulkhead,   \* tier -> [poolSize, active, queue]       (resources[tier].bulkhead)
  reqs,       \* tier -> set of requests between bulkhead.run and the release of their slot
  submitted,  \* tier -> number of calls of bulkhead.run so far (names the tasks)
  load,       \* tier -> number of requests the clients may still send to the tier
  ticks,      \* number of steps the clock may still take
  hist,       \* tier -> what has happened so far (history, read by no operation)
  resp,       \* the HTTP response written by the last step, NoResp when it wrote none
              \* (id and queuedUnder name the request answered; they are not sent)
  microtasks, \* the promise reactions queued, oldest first: <<tier, id>> of their task
  batch       \* number of requests the handlers of this turn have submitted, counted
              \* from the first that queued a reaction (0 when no reaction is queued,
              \* and once a reaction has run)

vars ==
  <<now, rateState, breaker, bulkhead, reqs, submitted, load, ticks, hist, resp,
    microtasks, batch>>

(***************************************************************************)
(* Bounds of the model.  The per-tier numbers of TIER_CONFIG (workerSize   *)
(* 10/30/60, rateLimit 100/1000) are scaled down; the breaker options and  *)
(* the limiter window are the program's.                                   *)
(***************************************************************************)
StartTime == 60000      \* the clock when the process starts (any value >= the window)
TickMs == 15000         \* the clock advances in steps of this many ms
WorkerSizeFree == 1
WorkerSizePro == 2
WorkerSizeEnterprise == 2
RateLimitFree == 6
RateLimitPro == 2
MaxQueue == 2           \* submissions stop while this many tasks are pending in a tier
MaxBatch == 2           \* requests submitted in one turn, from the first that queues a reaction
\* The workloads explored: the tier without a quota under heavy load while the
\* clock runs; a tier with a quota sent several times its quota while the clock
\* runs; or, at one instant, one tier sent enough requests to open its breaker
\* while another is lightly used.
DeepLoad == 8
LimitedLoad == 5
DeepTicks == 4
LightLoad == 1

(***************************************************************************)
(* Program constants.                                                      *)
(***************************************************************************)
FailureThreshold == 5
ResetTimeoutMs == 15000
WindowMs == 60000

Null == "null"
\* rateLimit: null of TIER_CONFIG, and an absent limit in a response; `!limit` takes
\* null and 0 alike
NoLimit == 0
\* the body of a response that carries no metrics
NoPayload == <<>>

NoResp ==
  [status |-> 0, tier |-> Null, error |-> Null, limit |-> NoLimit, id |-> 0,
   queuedUnder |-> Null, payload |-> NoPayload]

TIERS == {"free", "pro", "enterprise"}

TIER_CONFIG ==
  [t \in TIERS |->
     CASE t = "free" -> [workerSize |-> WorkerSizeFree, rateLimit |-> RateLimitFree]
       [] t = "pro" -> [workerSize |-> WorkerSizePro, rateLimit |-> RateLimitPro]
       [] t = "enterprise" -> [workerSize |-> WorkerSizeEnterprise, rateLimit |-> NoLimit]]

\* The values of the X-Tenant-Tier header the clients send; "none" is a missing header.
Headers == {"free", "pro", "enterprise", "PRO", "invalid", "none"}

toLowerCase(h) == IF h = "PRO" THEN "pro" ELSE h

\* getTier that serves a missing or unknown header as the free tier
getTier_defaultFree(h) ==
  IF h = "none" THEN "free"
  ELSE IF toLowerCase(h) \notin TIERS THEN "free"
  ELSE toLowerCase(h)

getTier(h) ==
  IF h = "none" THEN Null
  ELSE IF toLowerCase(h) \notin TIERS THEN Null
  ELSE toLowerCase(h)

----------------------------------------------------------------------------
(* CircuitBreaker *)

NewCircuitBreaker(failureThreshold, resetTimeoutMs) ==
  [failureThreshold |-> failureThreshold,
   resetTimeoutMs |-> resetTimeoutMs,
   state |-> "CLOSED",
   failures |-> 0,
   nextAttempt |-> 0,
   halfOpenInFlight |-> FALSE]

_transitionToOpen(cb, t) ==
  [cb EXCEPT !.state = "OPEN", !.nextAttempt = t + cb.resetTimeoutMs]

_transitionToHalfOpen(cb) ==
  [cb EXCEPT !.state = "HALF_OPEN", !.halfOpenInFlight = FALSE]

\* _transitionToClosed that keeps the failure count
_transitionToClosed_keepFailures(cb) ==
  [cb EXCEPT !.state = "CLOSED", !.halfOpenInFlight = FALSE]

_transitionToClosed(cb) ==
  [cb EXCEPT !.state = "CLOSED", !.failures = 0, !.halfOpenInFlight = FALSE]

\* _canAttempt that waits past nextAttempt (> for >=)
_canAttempt_late(cb, t) ==
  IF cb.state = "OPEN"
  THEN IF t > cb.nextAttempt
       THEN [ok |-> TRUE, cb |-> _transitionToHalfOpen(cb)]
       ELSE [ok |-> FALSE, cb |-> cb]
  ELSE IF cb.state = "HALF_OPEN"
  THEN [ok |-> ~cb.halfOpenInFlight, cb |-> cb]
  ELSE [ok |-> TRUE, cb |-> cb]

\* _canAttempt at time t: the answer and the breaker it leaves.
_canAttempt(cb, t) ==
  IF cb.state = "OPEN"
  THEN IF t >= cb.nextAttempt
       THEN [ok |-> TRUE, cb |-> _transitionToHalfOpen(cb)]
       ELSE [ok |-> FALSE, cb |-> cb]
  ELSE IF cb.state = "HALF_OPEN"
  THEN [ok |-> ~cb.halfOpenInFlight, cb |-> cb]
  ELSE [ok |-> TRUE, cb |-> cb]

\* executeEnter with a rejection that re-arms the open period
executeEnter_rearm(cb, t) ==
  LET a == _canAttempt(cb, t) IN
  IF ~a.ok THEN [admitted |-> FALSE, cb |-> _transitionToOpen(a.cb, t)]
  ELSE [admitted |-> TRUE,
        cb |-> IF a.cb.state = "HALF_OPEN"
               THEN [a.cb EXCEPT !.halfOpenInFlight = TRUE]
               ELSE a.cb]

\* execute up to the await of fn(): admitted or CircuitOpenError, and the breaker.
executeEnter(cb, t) ==
  LET a == _canAttempt(cb, t) IN
  IF ~a.ok THEN [admitted |-> FALSE, cb |-> a.cb]
  ELSE [admitted |-> TRUE,
        cb |-> IF a.cb.state = "HALF_OPEN"
               THEN [a.cb EXCEPT !.halfOpenInFlight = TRUE]
               ELSE a.cb]

\* the finally block of execute
executeFinally(cb) ==
  IF cb.state = "HALF_OPEN" THEN [cb EXCEPT !.halfOpenInFlight = FALSE] ELSE cb

\* CircuitBreaker.getMetrics
CircuitBreaker_getMetrics(cb) == [state |-> cb.state, failures |-> cb.failures]

\* execute that returns the result of fn() without touching the breaker
executeSuccess_untouched(cb) == cb

\* execute after fn() fulfilled
executeSuccess(cb) == executeFinally(_transitionToClosed(cb))

Min(a, b) == IF a <= b THEN a ELSE b

\* executeFailure that opens only past the threshold (> for >=)
executeFailure_strict(cb, t) ==
  LET c1 == [cb EXCEPT !.failures = Min(cb.failures + 1, cb.failureThreshold)]
      c2 == IF c1.state = "HALF_OPEN" \/ c1.failures > c1.failureThreshold
            THEN _transitionToOpen(c1, t)
            ELSE c1
  IN executeFinally(c2)

\* executeFailure that counts past the threshold
executeFailure_unsaturated(cb, t) ==
  LET c1 == [cb EXCEPT !.failures = cb.failures + 1]
      c2 == IF c1.state = "HALF_OPEN" \/ c1.failures >= c1.failureThreshold
            THEN _transitionToOpen(c1, t)
            ELSE c1
  IN executeFinally(c2)

\* executeFailure that opens one failure early
executeFailure_eager(cb, t) ==
  LET c1 == [cb EXCEPT !.failures = Min(cb.failures + 1, cb.failureThreshold)]
      c2 == IF c1.state = "HALF_OPEN" \/ c1.failures >= c1.failureThreshold - 1
            THEN _transitionToOpen(c1, t)
            ELSE c1
  IN executeFinally(c2)

\* execute after fn() rejected, at time t
executeFailure(cb, t) ==
  LET c1 == [cb EXCEPT !.failures = Min(cb.failures + 1, cb.failureThreshold)]
      c2 == IF c1.state = "HALF_OPEN" \/ c1.failures >= c1.failureThreshold
            THEN _transitionToOpen(c1, t)
            ELSE c1
  IN executeFinally(c2)

----------------------------------------------------------------------------
(* checkRateLimit *)

\* checkRateLimit that refuses only past the quota (> for >=)
checkRateLimit_offByOne(st, limit, t) ==
  IF limit = NoLimit
  THEN [allowed |-> TRUE, limit |-> NoLimit, state |-> st]
  ELSE LET s1 == IF t - st.windowStart >= WindowMs
                 THEN [windowStart |-> t, count |-> 0]
                 ELSE st
       IN IF s1.count > limit
          THEN [allowed |-> FALSE, limit |-> limit, state |-> s1]
          ELSE [allowed |-> TRUE, limit |-> limit,
                state |-> [s1 EXCEPT !.count = s1.count + 1]]

\* checkRateLimit without the early return for a null quota
checkRateLimit_noNullTest(st, limit, t) ==
  LET s1 == IF t - st.windowStart >= WindowMs
            THEN [windowStart |-> t, count |-> 0]
            ELSE st
  IN IF s1.count >= limit
     THEN [allowed |-> FALSE, limit |-> limit, state |-> s1]
     ELSE [allowed |-> TRUE, limit |-> limit,
           state |-> [s1 EXCEPT !.count = s1.count + 1]]

\* checkRateLimit that does not count the check that starts a window
checkRateLimit_freeFirst(st, limit, t) ==
  IF limit = NoLimit
  THEN [allowed |-> TRUE, limit |-> NoLimit, state |-> st]
  ELSE IF t - st.windowStart >= WindowMs
  THEN [allowed |-> TRUE, limit |-> limit, state |-> [windowStart |-> t, count |-> 0]]
  ELSE IF st.count >= limit
  THEN [allowed |-> FALSE, limit |-> limit, state |-> st]
  ELSE [allowed |-> TRUE, limit |-> limit, state |-> [st EXCEPT !.count = st.count + 1]]

\* checkRateLimit that counts the checks it rejects
checkRateLimit_countsRejected(st, limit, t) ==
  IF limit = NoLimit
  THEN [allowed |-> TRUE, limit |-> NoLimit, state |-> st]
  ELSE LET s1 == IF t - st.windowStart >= WindowMs
                 THEN [windowStart |-> t, count |-> 0]
                 ELSE st
       IN [allowed |-> s1.count < limit, limit |-> limit,
           state |-> [s1 EXCEPT !.count = s1.count + 1]]

\* checkRateLimit with a window a quarter as long
checkRateLimit_shortWindow(st, limit, t) ==
  IF limit = NoLimit
  THEN [allowed |-> TRUE, limit |-> NoLimit, state |-> st]
  ELSE LET s1 == IF t - st.windowStart >= WindowMs \div 4
                 THEN [windowStart |-> t, count |-> 0]
                 ELSE st
       IN IF s1.count >= limit
          THEN [allowed |-> FALSE, limit |-> limit, state |-> s1]
          ELSE [allowed |-> TRUE, limit |-> limit,
                state |-> [s1 EXCEPT !.count = s1.count + 1]]

checkRateLimit(st, limit, t) ==
  IF limit = NoLimit
  THEN [allowed |-> TRUE, limit |-> NoLimit, state |-> st]
  ELSE LET s1 == IF t - st.windowStart >= WindowMs
                 THEN [windowStart |-> t, count |-> 0]
                 ELSE st
       IN IF s1.count >= limit
          THEN [allowed |-> FALSE, limit |-> limit, state |-> s1]
          ELSE [allowed |-> TRUE, limit |-> limit,
                state |-> [s1 EXCEPT !.count = s1.count + 1]]

\* setRateState when every tier was given the same state object
setRateState_shared(rs, tier, st) == [x \in DOMAIN rs |-> st]

\* rateState holds one state object per tier: a check writes the tier's own
setRateState(rs, tier, st) == [rs EXCEPT ![tier] = st]

----------------------------------------------------------------------------
(* BulkheadQueue *)

NewBulkheadQueue(poolSize) == [poolSize |-> poolSize, active |-> 0, queue |-> <<>>]

\* runTask that counts the slot twice
runTask_twice(bh) == [bh EXCEPT !.active = bh.active + 2]

\* runTask: takes a slot; the task itself runs in a later promise reaction.
runTask(bh) == [bh EXCEPT !.active = bh.active + 1]

\* run that starts a task while active <= poolSize (<= for <)
run_offByOne(bh, id) ==
  IF bh.active <= bh.poolSize
  THEN [started |-> TRUE, bh |-> runTask(bh)]
  ELSE [started |-> FALSE, bh |-> [bh EXCEPT !.queue = Append(bh.queue, id)]]

\* run that drops the task when a task is already pending
run_capped(bh, id) ==
  IF bh.active < bh.poolSize
  THEN [started |-> TRUE, bh |-> runTask(bh)]
  ELSE IF Len(bh.queue) >= 1
  THEN [started |-> FALSE, bh |-> bh]
  ELSE [started |-> FALSE, bh |-> [bh EXCEPT !.queue = Append(bh.queue, id)]]

\* run(task) for the task named id: started at once, or its runTask queued.
run(bh, id) ==
  IF bh.active < bh.poolSize
  THEN [started |-> TRUE, bh |-> runTask(bh)]
  ELSE [started |-> FALSE, bh |-> [bh EXCEPT !.queue = Append(bh.queue, id)]]

\* _dequeue that leaves the last pending task where it is (<= 1 for === 0)
_dequeue_leavesLast(bh) ==
  IF Len(bh.queue) <= 1 THEN [next |-> 0, bh |-> bh]
  ELSE IF bh.active >= bh.poolSize THEN [next |-> 0, bh |-> bh]
  ELSE [next |-> Head(bh.queue),
        bh |-> runTask([bh EXCEPT !.queue = Tail(bh.queue)])]

\* _dequeue that takes the task queued last (pop for shift)
_dequeue_lifo(bh) ==
  IF Len(bh.queue) = 0 THEN [next |-> 0, bh |-> bh]
  ELSE IF bh.active >= bh.poolSize THEN [next |-> 0, bh |-> bh]
  ELSE [next |-> bh.queue[Len(bh.queue)],
        bh |-> runTask([bh EXCEPT !.queue = SubSeq(bh.queue, 1, Len(bh.queue) - 1)])]

\* _dequeue: the task it started (0 when none) and the bulkhead it leaves.
_dequeue(bh) ==
  IF Len(bh.queue) = 0 THEN [next |-> 0, bh |-> bh]
  ELSE IF bh.active >= bh.poolSize THEN [next |-> 0, bh |-> bh]
  ELSE [next |-> Head(bh.queue),
        bh |-> runTask([bh EXCEPT !.queue = Tail(bh.queue)])]

\* a finally callback that frees the slot and does not call _dequeue
release_noDequeue(bh) == [next |-> 0, bh |-> [bh EXCEPT !.active = bh.active - 1]]

\* a finally callback that calls _dequeue and does not free the slot
release_noDecrement(bh) == _dequeue(bh)

\* a finally callback that calls _dequeue only when the pool has become idle
release_whenIdle(bh) ==
  LET b == [bh EXCEPT !.active = bh.active - 1] IN
  IF b.active = 0 THEN _dequeue(b) ELSE [next |-> 0, bh |-> b]

\* the finally callback of runTask
release(bh) == _dequeue([bh EXCEPT !.active = bh.active - 1])

\* getMetrics that reports the free slots as queued
BulkheadQueue_getMetrics_freeSlots(bh) ==
  [active |-> bh.active, queued |-> bh.poolSize - bh.active, poolSize |-> bh.poolSize]

\* BulkheadQueue.getMetrics
BulkheadQueue_getMetrics(bh) ==
  [active |-> bh.active, queued |-> Len(bh.queue), poolSize |-> bh.poolSize]

----------------------------------------------------------------------------
(* Requests *)

\* pc: "queued"   runTask waits in bulkhead.queue
\*     "started"  runTask ran; the reaction that calls the task is pending
\*     "thrown"   fn() threw the forced error; the await's reaction is pending
\*     "refused"  execute threw CircuitOpenError; the adoption of its rejected
\*                promise by .then(task) is pending
\*     "inflight" pool.query is running
\*     "settled"  execute's promise settled; resolve/reject and finally are pending
\* queuedUnder (history): Null when run started the task at once, otherwise the
\* state of the breaker when run queued it
NewRequest(id, force, started, state) ==
  [id |-> id, force |-> force, pc |-> IF started THEN "started" ELSE "queued",
   probe |-> FALSE, invoked |-> FALSE, outcome |-> "none",
   queuedUnder |-> IF started THEN Null ELSE state]

\* a promise reaction is pending: the current turn of the event loop has not ended
MicrotaskPending == microtasks # <<>>

\* a reaction of this turn has run and reactions are still queued: the http
\* server calls no handler before the queue is empty
draining == MicrotaskPending /\ batch = 0

\* The reaction of task r is the next one to run.  A step of a task's chain stands
\* for the rounds of reactions up to its next effect, and every chain takes the
\* same number of rounds from one effect to the next (the call of the task; the
\* catch block of execute, or the adoption of its rejection; resolve or reject
\* with finally), so the effects happen in the order of this queue.
AtHead(tier, r) == microtasks # <<>> /\ Head(microtasks) = <<tier, r.id>>

\* the queue once its head has run and has queued the reactions `more`
Drained(more) == Tail(microtasks) \o more

Replace(S, old, new) == (S \ {old}) \cup {new}

----------------------------------------------------------------------------
(* History: kept beside the program's state to state the properties. *)

\* streak    protected operations that failed since the last one that succeeded
\* winStart  start of the current limiter window, reckoned from the clock alone:
\*           a check made WindowMs or more after winStart starts a new window
\* windows   number of windows started so far
\* checks    checkRateLimit calls in that window;  admitted  those it allowed
\* admits    times of the admissions less than WindowMs old
\* arrived   requests of the tier that reached checkRateLimit
\* ran       ids of the tasks the bulkhead has called
\* done      ids of the tasks whose promise has settled
NoHistory ==
  [streak |-> 0, winStart |-> 0, windows |-> 0, checks |-> 0, admitted |-> 0,
   admits |-> <<>>, arrived |-> 0, ran |-> {}, done |-> {}]

Recent(log, t) == SelectSeq(log, LAMBDA e : t - e < WindowMs)

AfterCheck(h, t, allowed) ==
  LET w == IF t - h.winStart >= WindowMs
           THEN [h EXCEPT !.winStart = t, !.windows = @ + 1, !.checks = 0,
                          !.admitted = 0]
           ELSE h
  IN [w EXCEPT !.checks = @ + 1,
               !.admitted = IF allowed THEN @ + 1 ELSE @,
               !.admits = IF allowed THEN Append(Recent(@, t), t) ELSE Recent(@, t)]

AfterArrival(h) == [h EXCEPT !.arrived = @ + 1]

AfterSettle(h, id) == [h EXCEPT !.done = @ \cup {id}]

AfterOperation(h, ok) == [h EXCEPT !.streak = IF ok THEN 0 ELSE @ + 1]

AfterCall(h, id) == [h EXCEPT !.ran = @ \cup {id}]

\* enough requests to open a breaker and then be refused by it
TripLoad == FailureThreshold + 1

Profiles ==
  {[load |-> [t \in TIERS |-> IF t = "enterprise" THEN DeepLoad ELSE 0],
    ticks |-> DeepTicks],
   [load |-> [t \in TIERS |-> IF t = "pro" THEN LimitedLoad ELSE 0],
    ticks |-> DeepTicks],
   [load |-> [t \in TIERS |-> CASE t = "free" -> TripLoad
                                [] t = "pro" -> LightLoad
                                [] OTHER -> 0],
    ticks |-> 0]}

Init ==
  /\ now = StartTime
  /\ rateState = [t \in TIERS |-> [windowStart |-> 0, count |-> 0]]
  /\ breaker = [t \in TIERS |-> NewCircuitBreaker(FailureThreshold, ResetTimeoutMs)]
  /\ bulkhead = [t \in TIERS |-> NewBulkheadQueue(TIER_CONFIG[t].workerSize)]
  /\ reqs = [t \in TIERS |-> {}]
  /\ submitted = [t \in TIERS |-> 0]
  /\ \E p \in Profiles : load = p.load /\ ticks = p.ticks
  /\ hist = [t \in TIERS |-> NoHistory]
  /\ resp = NoResp
  /\ microtasks = <<>>
  /\ batch = 0

\* Tick when a timer moves a breaker to HALF_OPEN as soon as its open period ends
Tick_timerHalfOpen ==
  /\ ticks > 0
  /\ ticks' = ticks - 1
  /\ now' = now + TickMs
  /\ hist' = [t \in TIERS |-> [hist[t] EXCEPT !.admits = Recent(@, now')]]
  /\ resp' = NoResp
  /\ breaker' = [t \in TIERS |->
        IF breaker[t].state = "OPEN" /\ now' >= breaker[t].nextAttempt
        THEN _transitionToHalfOpen(breaker[t]) ELSE breaker[t]]
  /\ UNCHANGED <<rateState, bulkhead, reqs, submitted, load, microtasks, batch>>

\* Date.now() moves on: between two turns of the event loop, and between two
\* handlers or reactions of one turn (each of them reads the clock at most once).
Tick ==
  /\ ticks > 0
  /\ ticks' = ticks - 1
  /\ now' = now + TickMs
  /\ hist' = [t \in TIERS |-> [hist[t] EXCEPT !.admits = Recent(@, now')]]
  /\ resp' = NoResp
  /\ UNCHANGED <<rateState, breaker, bulkhead, reqs, submitted, load, microtasks,
                 batch>>

\* GET /api/data with a missing or unknown X-Tenant-Tier header.  A handler is
\* called by the http server: at the start of a turn, or right after the handler
\* of the request read before it, never between two reactions.
BadTier(h) ==
  /\ ~draining
  /\ getTier(h) = Null
  /\ resp' = [NoResp EXCEPT !.status = 400,
                            !.error = "Missing or invalid X-Tenant-Tier header"]
  /\ UNCHANGED <<now, rateState, breaker, bulkhead, reqs, submitted, load, ticks, hist,
                 microtasks, batch>>

\* GET /metrics/bulkheads: the snapshot of the three tiers. (connectionPool, read
\* from the pg pool, is left out: the pool is not part of the model.)
Metrics ==
  /\ ~draining
  /\ resp' = [NoResp EXCEPT
        !.status = 200,
        !.payload = [t \in TIERS |->
                       [threadPool |-> BulkheadQueue_getMetrics(bulkhead[t]),
                        circuitBreaker |-> CircuitBreaker_getMetrics(breaker[t])]]]
  /\ UNCHANGED <<now, rateState, breaker, bulkhead, reqs, submitted, load, ticks, hist,
                 microtasks, batch>>

\* RateLimited when the handler enters the bulkhead before it checks the limit
RateLimited_late(h) ==
  LET tier == getTier(h)
      rl == checkRateLimit(rateState[tier], TIER_CONFIG[tier].rateLimit, now)
  IN /\ ~draining
     /\ tier # Null
     /\ load[tier] > 0
     /\ ~rl.allowed
     /\ load' = [load EXCEPT ![tier] = @ - 1]
     /\ rateState' = setRateState(rateState, tier, rl.state)
     /\ bulkhead' = [bulkhead EXCEPT ![tier] = runTask(@)]
     /\ resp' = [NoResp EXCEPT !.status = 429, !.tier = tier,
                               !.error = "Rate limit exceeded", !.limit = rl.limit]
     /\ hist' = [hist EXCEPT ![tier] = AfterArrival(AfterCheck(@, now, FALSE))]
     /\ UNCHANGED <<now, breaker, reqs, submitted, ticks, microtasks, batch>>

\* GET /api/data refused by checkRateLimit.
RateLimited(h) ==
  LET tier == getTier(h)
      rl == checkRateLimit(rateState[tier], TIER_CONFIG[tier].rateLimit, now)
  IN /\ ~draining
     /\ tier # Null
     /\ load[tier] > 0
     /\ ~rl.allowed
     /\ load' = [load EXCEPT ![tier] = @ - 1]
     /\ rateState' = setRateState(rateState, tier, rl.state)
     /\ resp' = [NoResp EXCEPT !.status = 429, !.tier = tier,
                               !.error = "Rate limit exceeded", !.limit = rl.limit]
     /\ hist' = [hist EXCEPT ![tier] = AfterArrival(AfterCheck(@, now, FALSE))]
     /\ UNCHANGED <<now, breaker, bulkhead, reqs, submitted, ticks, microtasks,
                    batch>>

\* GET /api/data admitted by checkRateLimit: the handler up to its await of
\* bulkhead.run(...).  runTask, when run calls it, queues the reaction that calls
\* the task.
Submit(h, force) ==
  LET tier == getTier(h)
      rl == checkRateLimit(rateState[tier], TIER_CONFIG[tier].rateLimit, now)
      id == submitted[tier] + 1
      r == run(bulkhead[tier], id)
  IN /\ ~draining
     /\ tier # Null
     /\ load[tier] > 0
     /\ Len(bulkhead[tier].queue) < MaxQueue
     /\ batch < MaxBatch
     /\ rl.allowed
     /\ load' = [load EXCEPT ![tier] = @ - 1]
     /\ rateState' = setRateState(rateState, tier, rl.state)
     /\ submitted' = [submitted EXCEPT ![tier] = id]
     /\ bulkhead' = [bulkhead EXCEPT ![tier] = r.bh]
     /\ reqs' = [reqs EXCEPT ![tier] =
           @ \cup {NewRequest(id, force, r.started, breaker[tier].state)}]
     /\ resp' = NoResp
     /\ hist' = [hist EXCEPT ![tier] =
                   AfterArrival(IF TIER_CONFIG[tier].rateLimit = NoLimit THEN @
                                ELSE AfterCheck(@, now, TRUE))]
     /\ microtasks' = IF r.started THEN Append(microtasks, <<tier, id>>)
                      ELSE microtasks
     /\ batch' = IF microtasks' = <<>> THEN 0 ELSE batch + 1
     /\ UNCHANGED <<now, breaker, ticks>>

\* StartTask when the task calls the operation without going through execute's
\* admission test
StartTask_unguarded(tier, r) ==
  /\ r \in reqs[tier]
  /\ r.pc = "started"
  /\ AtHead(tier, r)
  /\ microtasks' = Drained(IF r.force THEN << <<tier, r.id>> >> ELSE <<>>)
  /\ batch' = 0
  /\ breaker' = breaker
  /\ reqs' = [reqs EXCEPT ![tier] = Replace(@, r,
        [r EXCEPT !.pc = IF r.force THEN "thrown" ELSE "inflight",
                  !.invoked = TRUE])]
  /\ hist' = [hist EXCEPT ![tier] = AfterCall(@, r.id)]
  /\ resp' = NoResp
  /\ UNCHANGED <<now, rateState, bulkhead, submitted, load, ticks>>

\* The reaction Promise.resolve().then(task): circuitBreaker.execute(fn) up to
\* its first await.  A call that was refused, or whose fn threw, has its next
\* reaction queued; a call that reached pool.query waits for the query.
StartTask(tier, r) ==
  LET e == executeEnter(breaker[tier], now) IN
  /\ r \in reqs[tier]
  /\ r.pc = "started"
  /\ AtHead(tier, r)
  /\ microtasks' = Drained(IF e.admitted /\ ~r.force THEN <<>>
                           ELSE << <<tier, r.id>> >>)
  /\ batch' = 0
  /\ breaker' = [breaker EXCEPT ![tier] = e.cb]
  /\ reqs' = [reqs EXCEPT ![tier] = Replace(@, r,
        IF ~e.admitted
        THEN [r EXCEPT !.pc = "refused", !.outcome = "circuit_open"]
        ELSE [r EXCEPT !.pc = IF r.force THEN "thrown" ELSE "inflight",
                       !.invoked = TRUE,
                       !.probe = (e.cb.state = "HALF_OPEN")])]
  /\ hist' = [hist EXCEPT ![tier] = AfterCall(@, r.id)]
  /\ resp' = NoResp
  /\ UNCHANGED <<now, rateState, bulkhead, submitted, load, ticks>>

\* Resume when the failure that opens the breaker is reported as CircuitOpenError
Resume_maskOnTrip(tier, r, ok) ==
  LET cb == IF ok THEN executeSuccess(breaker[tier])
            ELSE executeFailure(breaker[tier], now) IN
  /\ breaker' = [breaker EXCEPT ![tier] = cb]
  /\ reqs' = [reqs EXCEPT ![tier] = Replace(@, r,
        [r EXCEPT !.pc = "settled",
                  !.outcome = IF ok THEN "ok"
                              ELSE IF cb.state = "OPEN" THEN "circuit_open"
                              ELSE "op_failed"])]
  /\ hist' = [hist EXCEPT ![tier] = AfterOperation(@, ok)]
  /\ resp' = NoResp
  /\ UNCHANGED <<now, rateState, bulkhead, submitted, load, ticks>>

\* execute resumes after await fn(): fn fulfilled (ok) or rejected.
Resume(tier, r, ok) ==
  /\ breaker' = [breaker EXCEPT ![tier] =
        IF ok THEN executeSuccess(@) ELSE executeFailure(@, now)]
  /\ reqs' = [reqs EXCEPT ![tier] = Replace(@, r,
        [r EXCEPT !.pc = "settled",
                  !.outcome = IF ok THEN "ok" ELSE "op_failed"])]
  /\ hist' = [hist EXCEPT ![tier] = AfterOperation(@, ok)]
  /\ resp' = NoResp
  /\ UNCHANGED <<now, rateState, bulkhead, submitted, load, ticks>>

\* the forced error reaches execute's catch, in the same turn
ForcedError(tier, r) ==
  /\ r \in reqs[tier]
  /\ r.pc = "thrown"
  /\ AtHead(tier, r)
  /\ microtasks' = Drained(<< <<tier, r.id>> >>)
  /\ batch' = 0
  /\ Resume(tier, r, FALSE)

\* The CircuitOpenError that execute threw before its try block: the promise
\* of .then(task) adopts the rejection, in the round of reactions in which the
\* catch block of an admitted call runs; the breaker is not touched.
Rejected(tier, r) ==
  /\ r \in reqs[tier]
  /\ r.pc = "refused"
  /\ AtHead(tier, r)
  /\ microtasks' = Drained(<< <<tier, r.id>> >>)
  /\ batch' = 0
  /\ reqs' = [reqs EXCEPT ![tier] = Replace(@, r, [r EXCEPT !.pc = "settled"])]
  /\ resp' = NoResp
  /\ UNCHANGED <<now, rateState, breaker, bulkhead, submitted, load, ticks, hist>>

\* pool.query completes, with rows or with an error: a turn of its own, whose
\* reactions follow
QueryDone(tier, r, ok) ==
  /\ ~MicrotaskPending
  /\ r \in reqs[tier]
  /\ r.pc = "inflight"
  /\ microtasks' = << <<tier, r.id>> >>
  /\ batch' = 0
  /\ Resume(tier, r, ok)

\* Response without the instanceof CircuitOpenError test of the catch block
Response_noInstanceof(tier, r) ==
  CASE r.outcome = "ok" ->
         [NoResp EXCEPT !.status = 200, !.tier = tier, !.id = r.id,
                        !.queuedUnder = r.queuedUnder]
    [] OTHER ->
         [NoResp EXCEPT !.status = 503, !.tier = tier, !.id = r.id,
                        !.queuedUnder = r.queuedUnder, !.error = "Service unavailable"]

\* the handler's answer once bulkhead.run(...) has settled
Response(tier, r) ==
  CASE r.outcome = "ok" ->
         [NoResp EXCEPT !.status = 200, !.tier = tier, !.id = r.id,
                        !.queuedUnder = r.queuedUnder]
    [] r.outcome = "circuit_open" ->
         [NoResp EXCEPT !.status = 503, !.tier = tier, !.id = r.id,
                        !.queuedUnder = r.queuedUnder, !.error = "Circuit breaker open"]
    [] OTHER ->
         [NoResp EXCEPT !.status = 503, !.tier = tier, !.id = r.id,
                        !.queuedUnder = r.queuedUnder, !.error = "Service unavailable"]

\* Settle when the handler gives the quota back to a request that was not served
Settle_refund(tier, r) ==
  LET d == release(bulkhead[tier]) IN
  /\ r \in reqs[tier]
  /\ r.pc = "settled"
  /\ AtHead(tier, r)
  /\ microtasks' = Drained(IF d.next = 0 THEN <<>> ELSE << <<tier, d.next>> >>)
  /\ batch' = 0
  /\ bulkhead' = [bulkhead EXCEPT ![tier] = d.bh]
  /\ reqs' = [reqs EXCEPT ![tier] =
        {IF q.id = d.next THEN [q EXCEPT !.pc = "started"] ELSE q : q \in @ \ {r}}]
  /\ resp' = Response(tier, r)
  /\ hist' = [hist EXCEPT ![tier] = AfterSettle(@, r.id)]
  /\ rateState' = IF r.outcome # "ok" /\ rateState[tier].count > 0
                   THEN [rateState EXCEPT ![tier].count = @ - 1]
                   ELSE rateState
  /\ UNCHANGED <<now, breaker, submitted, load, ticks>>

\* Settle when resolve and reject are kept on the bulkhead, so that a settlement
\* reaches the promise of the task submitted last
Settle_sharedResolve(tier, r) ==
  LET d == release(bulkhead[tier]) IN
  /\ r \in reqs[tier]
  /\ r.pc = "settled"
  /\ AtHead(tier, r)
  /\ microtasks' = Drained(IF d.next = 0 THEN <<>> ELSE << <<tier, d.next>> >>)
  /\ batch' = 0
  /\ bulkhead' = [bulkhead EXCEPT ![tier] = d.bh]
  /\ reqs' = [reqs EXCEPT ![tier] =
        {IF q.id = d.next THEN [q EXCEPT !.pc = "started"] ELSE q : q \in @ \ {r}}]
  /\ resp' = Response(tier, [r EXCEPT !.id = submitted[tier]])
  /\ hist' = [hist EXCEPT ![tier] = AfterSettle(@, r.id)]
  /\ UNCHANGED <<now, rateState, breaker, submitted, load, ticks>>

\* .then(resolve).catch(reject).finally(...): the handler answers, the slot is
\* released and _dequeue starts the head of the queue, whose runTask queues the
\* reaction that calls it.
Settle(tier, r) ==
  LET d == release(bulkhead[tier]) IN
  /\ r \in reqs[tier]
  /\ r.pc = "settled"
  /\ AtHead(tier, r)
  /\ microtasks' = Drained(IF d.next = 0 THEN <<>> ELSE << <<tier, d.next>> >>)
  /\ batch' = 0
  /\ bulkhead' = [bulkhead EXCEPT ![tier] = d.bh]
  /\ reqs' = [reqs EXCEPT ![tier] =
        {IF q.id = d.next THEN [q EXCEPT !.pc = "started"] ELSE q : q \in @ \ {r}}]
  /\ resp' = Response(tier, r)
  /\ hist' = [hist EXCEPT ![tier] = AfterSettle(@, r.id)]
  /\ UNCHANGED <<now, rateState, breaker, submitted, load, ticks>>

Next ==
  \/ Tick
  \/ \E h \in Headers : BadTier(h)
  \/ Metrics
  \/ \E h \in Headers : RateLimited(h)
  \/ \E h \in Headers, force \in BOOLEAN : Submit(h, force)
  \/ \E t \in TIERS : \E r \in reqs[t] : StartTask(t, r)
  \/ \E t \in TIERS : \E r \in reqs[t] : ForcedError(t, r)
  \/ \E t \in TIERS : \E r \in reqs[t] : Rejected(t, r)
  \/ \E t \in TIERS : \E r \in reqs[t], ok \in BOOLEAN : QueryDone(t, r, ok)
  \/ \E t \in TIERS : \E r \in reqs[t] : Settle(t, r)

Spec == Init /\ [][Next]_vars

\* The reactions of a turn always run, and every operation that was started
\* completes; nothing is assumed of the arrival of requests or of the clock.
Progress ==
  \/ \E t \in TIERS : \E r \in reqs[t] : StartTask(t, r)
  \/ \E t \in TIERS : \E r \in reqs[t] : ForcedError(t, r)
  \/ \E t \in TIERS : \E r \in reqs[t] : Rejected(t, r)
  \/ \E t \in TIERS : \E r \in reqs[t], ok \in BOOLEAN : QueryDone(t, r, ok)
  \/ \E t \in TIERS : \E r \in reqs[t] : Settle(t, r)

FairSpec == Spec /\ WF_vars(Progress)

----------------------------------------------------------------------------
(* Properties *)

\* the calls admitted as half-open probe whose operation has not completed
InFlightProbes(t) == {r \in reqs[t] : r.probe /\ r.pc \in {"inflight", "thrown"}}

\* execute refused the call: CircuitOpenError, operation not invoked
Refused(q) == q.pc \in {"refused", "settled"} /\ q.outcome = "circuit_open" /\ ~q.invoked

\* this step is the call of execute for request r of tier t
Executes(t, r) == r \in reqs[t] /\ r.pc = "started" /\ r \notin reqs'[t]

\* this step is the completion of the operation of request r of tier t
Completes(t, r) == r \in reqs[t] /\ r.pc \in {"inflight", "thrown"} /\ r \notin reqs'[t]

\* request r as the step leaves it
After(t, r) == CHOOSE q \in reqs'[t] : q.id = r.id

Limited == {t \in TIERS : TIER_CONFIG[t].rateLimit # NoLimit}

TierState(t) == <<rateState[t], breaker[t], bulkhead[t], reqs[t]>>

\* C1: in every reachable state and for every tier, 0 <= active <= poolSize.
C1_ActiveWithinPool ==
  \A t \in TIERS : 0 <= bulkhead[t].active /\ bulkhead[t].active <= bulkhead[t].poolSize

\* a burst larger than the pool: every slot taken and tasks waiting
C1_Witness ==
  \E t \in TIERS : /\ bulkhead[t].active = bulkhead[t].poolSize
                   /\ Len(bulkhead[t].queue) = MaxQueue

\* C2: the failure that completes a run of `threshold` failures with no success in
\* between leaves the breaker OPEN whatever its state was, and a call of execute
\* made after such a run while the breaker is OPEN and now < nextAttempt is refused
\* as circuit-open without invoking its operation.
C2_OpensAfterThreshold ==
  [][\A t \in TIERS :
       /\ (/\ hist'[t].streak = hist[t].streak + 1
           /\ hist'[t].streak >= breaker[t].failureThreshold)
          => breaker'[t].state = "OPEN"
       /\ \A r \in reqs[t] :
            (/\ Executes(t, r)
             /\ hist[t].streak >= breaker[t].failureThreshold
             /\ breaker[t].state = "OPEN"
             /\ now < breaker[t].nextAttempt)
            => Refused(After(t, r))]_vars

\* the breaker opened by a run of failures has refused a call
C2_Witness ==
  \E t \in TIERS : \E r \in reqs[t] :
    /\ hist[t].streak >= breaker[t].failureThreshold
    /\ breaker[t].state = "OPEN"
    /\ now < breaker[t].nextAttempt
    /\ Refused(r)

\* C3: a call the breaker refuses (OPEN with now < nextAttempt, or HALF_OPEN with a
\* probe in flight) fails with CircuitOpenError, does not invoke the operation and
\* leaves state, failures, nextAttempt and halfOpenInFlight as they were.
C3_RefusalChangesNothing ==
  [][\A t \in TIERS : \A r \in reqs[t] :
       (/\ Executes(t, r)
        /\ \/ breaker[t].state = "OPEN" /\ now < breaker[t].nextAttempt
           \/ breaker[t].state = "HALF_OPEN" /\ breaker[t].halfOpenInFlight)
       => /\ Refused(After(t, r))
          /\ breaker'[t] = breaker[t]
          /\ hist'[t].streak = hist[t].streak]_vars

\* a call refused while HALF_OPEN with the probe in flight, failures at the threshold
C3_Witness ==
  \E t \in TIERS : \E r \in reqs[t] :
    /\ breaker[t].state = "HALF_OPEN"
    /\ breaker[t].halfOpenInFlight
    /\ breaker[t].failures = breaker[t].failureThreshold
    /\ Refused(r)

\* C4: a call arriving at an OPEN breaker with now >= nextAttempt moves it to
\* HALF_OPEN and its operation is invoked as the probe; every other call of execute
\* made before that probe settles is refused without invoking its operation.
C4_Original ==
  [][\A t \in TIERS : \A r \in reqs[t] :
       Executes(t, r) =>
         /\ (breaker[t].state = "OPEN" /\ now >= breaker[t].nextAttempt)
            => /\ breaker'[t].state = "HALF_OPEN"
               /\ After(t, r).invoked
               /\ After(t, r).probe
         /\ InFlightProbes(t) # {} => Refused(After(t, r))]_vars

\* C5: at most one call admitted as half-open probe is in flight.
C5_Original == \A t \in TIERS : Cardinality(InFlightProbes(t)) <= 1

\* C6: when the probe's operation succeeds the breaker becomes CLOSED with
\* failures = 0; when it fails the breaker becomes OPEN with
\* nextAttempt = time of the failure + resetTimeout.
C6_Original ==
  [][\A t \in TIERS : \A r \in reqs[t] :
       (r.probe /\ Completes(t, r)) =>
         IF After(t, r).outcome = "ok"
         THEN breaker'[t].state = "CLOSED" /\ breaker'[t].failures = 0
         ELSE /\ breaker'[t].state = "OPEN"
              /\ breaker'[t].nextAttempt = now + breaker[t].resetTimeoutMs]_vars

\* C7: within one limiter window checkRateLimit admits exactly the first Q checks:
\* of N checks min(N, Q) are admitted and the others refused; the window is the one
\* started by the first check made WindowMs or more after the start of the last.
C7_FixedWindow ==
  \A t \in Limited :
    /\ hist[t].admitted = Min(hist[t].checks, TIER_CONFIG[t].rateLimit)
    /\ rateState[t].count = hist[t].admitted
    /\ rateState[t].windowStart = hist[t].winStart

\* a later window, more checks in it than the quota
C7_Witness ==
  \E t \in Limited :
    /\ hist[t].windows >= 2
    /\ hist[t].checks > TIER_CONFIG[t].rateLimit
    /\ hist[t].admitted = TIER_CONFIG[t].rateLimit

\* C8: in any interval of WindowMs, wherever it starts, at most Q calls are admitted.
C8_Original == \A t \in Limited : Len(hist[t].admits) <= TIER_CONFIG[t].rateLimit

\* C8 amended: at most Q calls are admitted between two resets of windowStart, and
\* since the first of them is admitted at the reset itself, any interval of WindowMs
\* holds at most 2Q - 1 admissions.
C8_Amended ==
  \A t \in Limited :
    /\ Len(SelectSeq(hist[t].admits, LAMBDA e : e >= rateState[t].windowStart))
         <= TIER_CONFIG[t].rateLimit
    /\ Len(hist[t].admits) <= 2 * TIER_CONFIG[t].rateLimit - 1

\* 2Q - 1 > Q admissions less than WindowMs apart, on both sides of a reset
C8_Witness ==
  \E t \in Limited :
    /\ TIER_CONFIG[t].rateLimit > 1
    /\ Len(hist[t].admits) = 2 * TIER_CONFIG[t].rateLimit - 1
    /\ hist[t].admits[1] < rateState[t].windowStart

\* C9: a step changes the limiter, breaker and bulkhead state of at most one tier,
\* and a request sent to one tier changes no other tier's.
C9_TiersIndependent ==
  [][\A t \in TIERS : \A u \in TIERS \ {t} :
       (load'[t] # load[t] \/ TierState(t)' # TierState(t))
       => TierState(u)' = TierState(u)]_vars

\* the free breaker has been opened by its failures and pro, its breaker closed
\* and without a failure, has just served a request
C9_Witness ==
  /\ breaker["free"].state = "OPEN"
  /\ breaker["free"].failures = FailureThreshold
  /\ breaker["pro"].state = "CLOSED"
  /\ breaker["pro"].failures = 0
  /\ breaker["enterprise"].state = "CLOSED"
  /\ resp.status = 200 /\ resp.tier = "pro"

\* C10: the step that answers 429 changes no bulkhead and no breaker, starts no
\* task and invokes no operation.
C10_RateLimitTouchesNothing ==
  [][resp'.status = 429 =>
       /\ bulkhead' = bulkhead
       /\ breaker' = breaker
       /\ reqs' = reqs
       /\ submitted' = submitted]_vars

\* a request refused by the limiter while its tier has tasks running
C10_Witness ==
  /\ resp.status = 429
  /\ bulkhead[resp.tier].active > 0
  /\ reqs[resp.tier] # {}

\* this step answers request r of tier t and releases its slot
Answers(t, r) == r \in reqs[t] /\ r.pc = "settled" /\ r \notin reqs'[t]

\* C11: every request for a valid tier is answered with one of 200, 429, 503
\* "Circuit breaker open" and 503 "Service unavailable": circuit-open exactly when
\* the breaker refused the call without invoking the operation, 200 exactly when
\* the operation was invoked and succeeded, "Service unavailable" exactly when it
\* was invoked and failed, and 429 only for a request that entered no bulkhead.
C11_FourOutcomes ==
  [][/\ \A t \in TIERS : \A r \in reqs[t] :
          Answers(t, r) =>
            /\ resp'.tier = t /\ resp'.id = r.id
            /\ (~r.invoked) <=>
                  (resp'.status = 503 /\ resp'.error = "Circuit breaker open")
            /\ (r.invoked /\ r.outcome = "ok") <=>
                  (resp'.status = 200 /\ resp'.error = Null)
            /\ (r.invoked /\ r.outcome # "ok") <=>
                  (resp'.status = 503 /\ resp'.error = "Service unavailable")
     /\ (resp'.tier # Null /\ resp'.status # 429)
          => \E r \in reqs[resp'.tier] : Answers(resp'.tier, r)
     /\ resp'.status = 429
          => /\ resp'.error = "Rate limit exceeded"
             /\ reqs' = reqs
             /\ load'[resp'.tier] = load[resp'.tier] - 1]_vars

\* a call the breaker refused has been answered "Circuit breaker open"
C11_Witness ==
  /\ resp.status = 503
  /\ resp.error = "Circuit breaker open"
  /\ breaker[resp.tier].state = "OPEN"

\* C12: no task is dropped. A task is called at most once and its promise
\* settles at most once, after the task was called; and when every started
\* operation completes, every task submitted to a bulkhead is eventually called
\* and its promise eventually settles.
C12_NoTaskDropped ==
  /\ [][\A t \in TIERS : \A r \in reqs[t] :
          /\ Executes(t, r) => r.id \notin hist[t].ran
          /\ Answers(t, r) => r.id \in hist[t].ran /\ r.id \notin hist[t].done]_vars
  /\ \A t \in TIERS :
       (reqs[t] # {}) ~> (/\ hist[t].ran = 1..submitted[t]
                          /\ hist[t].done = 1..submitted[t])

\* every task of a burst that filled the pool and the queue has run and settled
C12_Witness ==
  \E t \in TIERS :
    /\ submitted[t] >= bulkhead[t].poolSize + MaxQueue
    /\ reqs[t] = {}
    /\ hist[t].done = 1..submitted[t]
    /\ resp.tier = t /\ resp.id = submitted[t]

\* C13: the tasks that waited start in the order they were queued: a step that
\* starts a queued task starts the one submitted before every other queued task
\* of the tier.
C13_QueueIsFifo ==
  [][\A t \in TIERS : \A r \in reqs[t] :
       (r.pc = "queued" /\ After(t, r).pc = "started")
         => /\ r.id = Head(bulkhead[t].queue)
            /\ \A q \in reqs[t] : q.pc = "queued" => r.id <= q.id]_vars

\* a completion has just started the task queued first while a task queued
\* later still waits
C13_Witness ==
  \E t \in TIERS : \E r, q \in reqs[t] :
    /\ resp.tier = t /\ resp.id # 0
    /\ r.pc = "started" /\ r.queuedUnder # Null
    /\ microtasks[Len(microtasks)] = <<t, r.id>>
    /\ q.pc = "queued"
    /\ r.id < q.id

\* C14: with pool size P, as long as no task has completed, N submitted tasks
\* leave active = min(N, P) and queued = N - active; tasks wait only while the
\* pool is full; and each completion, by success or failure, starts exactly the
\* head of the queue, so that active stays P and the queue loses one task (with
\* an empty queue the completion frees one slot and starts nothing).
C14_PoolAndQueueCounts ==
  /\ [](\A t \in TIERS :
         LET bh == bulkhead[t] IN
         /\ hist[t].done = {} =>
               /\ bh.active = Min(submitted[t], bh.poolSize)
               /\ Len(bh.queue) = submitted[t] - bh.active
         /\ Len(bh.queue) > 0 => bh.active = bh.poolSize)
  /\ [][\A t \in TIERS : \A r \in reqs[t] :
          Answers(t, r) =>
            LET bh == bulkhead[t]
                woken == {q \in reqs[t] \ {r} :
                            q.pc = "queued" /\ After(t, q).pc = "started"}
            IN IF Len(bh.queue) > 0
               THEN /\ bulkhead'[t].active = bh.poolSize
                    /\ bulkhead'[t].queue = Tail(bh.queue)
                    /\ woken = {q \in reqs[t] : q.id = Head(bh.queue)}
                    /\ Cardinality(woken) = 1
               ELSE /\ bulkhead'[t].active = bh.active - 1
                    /\ bulkhead'[t].queue = bh.queue
                    /\ woken = {}]_vars

\* the first completion of a burst of P + MaxQueue tasks, a failure, has started
\* the head of the queue: the pool is still full and one task less waits
C14_Witness ==
  \E t \in TIERS :
    /\ bulkhead[t].poolSize >= 2
    /\ submitted[t] = bulkhead[t].poolSize + MaxQueue
    /\ Cardinality(hist[t].done) = 1
    /\ resp.tier = t /\ resp.status = 503 /\ resp.id # 0
    /\ bulkhead[t].active = bulkhead[t].poolSize
    /\ Len(bulkhead[t].queue) = MaxQueue - 1
    /\ \E q \in reqs[t] : q.pc = "started" /\ q.queuedUnder # Null

\* C15: the promise run returned for a task settles with the result of that
\* task: the step that settles request r answers request r (and no other) with
\* the value or the error of r's own task, a forced task never with a value, and
\* it settles the promise of no other request, whether r started at once or had
\* waited, and in whatever order the operations complete.
C15_OwnResult ==
  [][\A t \in TIERS : \A r \in reqs[t] :
       Answers(t, r) =>
         /\ resp'.tier = t /\ resp'.id = r.id
         /\ resp'.status = (IF r.outcome = "ok" THEN 200 ELSE 503)
         /\ r.force => resp'.status = 503
         /\ hist'[t].done = hist[t].done \cup {r.id}
         /\ \A q \in reqs[t] \ {r} :
              /\ \E q2 \in reqs'[t] : q2.id = q.id
              /\ After(t, q).outcome = q.outcome]_vars

\* a task that had waited is answered with its own rejection while a task
\* submitted earlier is still in flight and a task submitted later has not run
C15_Witness ==
  \E t \in TIERS : \E q, c \in reqs[t] :
    /\ resp.tier = t /\ resp.error = "Circuit breaker open"
    /\ resp.queuedUnder # Null
    /\ c.pc = "started" /\ c.id > resp.id
    /\ q.pc = "inflight" /\ q.id < resp.id

\* C16: a tier whose quota is null is never rate-limited: every request that
\* reached checkRateLimit was admitted, no 429 names the tier, its windowStart
\* and count keep their initial values, and checkRateLimit with a null quota
\* allows the call and returns the limiter state unchanged, at any time and for
\* any limiter state.
C16_NullQuotaUnlimited ==
  /\ \A t \in TIERS \ Limited :
       /\ rateState[t] = [windowStart |-> 0, count |-> 0]
       /\ submitted[t] = hist[t].arrived
       /\ ~(resp.status = 429 /\ resp.tier = t)
       /\ checkRateLimit(rateState[t], TIER_CONFIG[t].rateLimit, now).allowed
  /\ \A x \in TIERS :
       checkRateLimit(rateState[x], NoLimit, now)
         = [allowed |-> TRUE, limit |-> NoLimit, state |-> rateState[x]]

\* the enterprise tier has been admitted more requests than any quota of the
\* model allows in a window, across several windows
C16_Witness ==
  \E t \in TIERS \ Limited :
    /\ submitted[t] = DeepLoad
    /\ \A x \in Limited : submitted[t] > TIER_CONFIG[x].rateLimit
    /\ now >= StartTime + WindowMs

\* C17: the breaker changes state only along CLOSED -> OPEN, OPEN -> HALF_OPEN,
\* HALF_OPEN -> CLOSED and HALF_OPEN -> OPEN; it leaves OPEN only in a call of
\* execute that arrives with now >= nextAttempt, and refuses every call that
\* arrives earlier.
C17_Original ==
  [][\A t \in TIERS :
       LET a == breaker[t].state
           b == breaker'[t].state
       IN /\ a # b => <<a, b>> \in {<<"CLOSED", "OPEN">>, <<"OPEN", "HALF_OPEN">>,
                                    <<"HALF_OPEN", "CLOSED">>, <<"HALF_OPEN", "OPEN">>}
          /\ (a = "OPEN" /\ b # "OPEN")
               => /\ now >= breaker[t].nextAttempt
                  /\ \E r \in reqs[t] : Executes(t, r)
          /\ \A r \in reqs[t] :
               (Executes(t, r) /\ a = "OPEN" /\ now < breaker[t].nextAttempt)
                 => Refused(After(t, r)) /\ b = "OPEN"]_vars

\* C18: the breaker recovers by itself. A call of execute that finds the breaker
\* OPEN with now >= nextAttempt is admitted as the probe (HALF_OPEN); an
\* operation that succeeds leaves the breaker CLOSED with failures = 0; a call is
\* refused only while OPEN before nextAttempt, or while HALF_OPEN with a probe
\* really in flight; and, operations completing, the breaker does not stay
\* HALF_OPEN: so once the open period has elapsed the next call is admitted, and
\* the breaker is CLOSED as soon as an admitted operation succeeds.
C18_Recovers ==
  /\ [][\A t \in TIERS : \A r \in reqs[t] :
          /\ (Executes(t, r) /\ breaker[t].state = "OPEN"
                /\ now >= breaker[t].nextAttempt)
               => /\ After(t, r).invoked /\ After(t, r).probe
                  /\ breaker'[t].state = "HALF_OPEN"
          /\ (Completes(t, r) /\ After(t, r).outcome = "ok")
               => /\ breaker'[t].state = "CLOSED"
                  /\ breaker'[t].failures = 0
                  /\ ~breaker'[t].halfOpenInFlight
          /\ (Executes(t, r) /\ Refused(After(t, r)))
               => \/ breaker[t].state = "OPEN" /\ now < breaker[t].nextAttempt
                  \/ breaker[t].state = "HALF_OPEN" /\ InFlightProbes(t) # {}]_vars
  /\ \A t \in TIERS :
       (breaker[t].state = "HALF_OPEN") ~> (breaker[t].state # "HALF_OPEN")

\* the operation of the probe, the only call in flight, admitted once the open
\* period had elapsed, has just succeeded: the breaker is CLOSED again
C18_Witness ==
  \E t \in TIERS : \E r \in reqs[t] :
    /\ reqs[t] = {r}
    /\ r.probe /\ r.pc = "settled" /\ r.outcome = "ok"
    /\ breaker[t].state = "CLOSED" /\ breaker[t].failures = 0
    /\ breaker[t].nextAttempt > 0 /\ now >= breaker[t].nextAttempt

\* C19: GET /metrics/bulkheads changes no state: the limiter, breaker and
\* bulkhead of every tier, the requests in progress and the clock are the same
\* before and after it; and its snapshot reports, for each of the three tiers,
\* the current active, queue length and poolSize of the bulkhead and the current
\* state and failures of the breaker.
C19_MetricsReadOnly ==
  [][resp'.payload # NoPayload =>
       /\ UNCHANGED <<now, rateState, breaker, bulkhead, reqs, submitted, load,
                      ticks, hist, microtasks, batch>>
       /\ resp'.status = 200
       /\ DOMAIN resp'.payload = TIERS
       /\ \A t \in TIERS :
            /\ resp'.payload[t].threadPool.active = bulkhead[t].active
            /\ resp'.payload[t].threadPool.queued = Len(bulkhead[t].queue)
            /\ resp'.payload[t].threadPool.poolSize = bulkhead[t].poolSize
            /\ resp'.payload[t].circuitBreaker.state = breaker[t].state
            /\ resp'.payload[t].circuitBreaker.failures = breaker[t].failures]_vars

\* a snapshot taken while a tier has its pool full, a task waiting and failures
\* counted by its breaker, in the turn in which a request of the tier was
\* submitted and before its task was called
C19_Witness ==
  /\ resp.payload # NoPayload
  /\ \E t \in TIERS :
       /\ resp.payload[t].threadPool.active = bulkhead[t].poolSize
       /\ resp.payload[t].threadPool.queued > 0
       /\ resp.payload[t].circuitBreaker.failures > 0
       /\ \E r \in reqs[t] : r.pc = "inflight"
       /\ \E r \in reqs[t] : r.pc = "started" /\ AtHead(t, r)

\* the header values that name no tier
InvalidHeaders == {"invalid", "none"}

\* C20: a request whose X-Tenant-Tier header is missing or names no tier is
\* rejected with 400 before any admission step: getTier gives it no tier, no
\* rate-limit check and no submission to a bulkhead is made for it, and the step
\* that answers 400 changes no limiter, bulkhead or breaker, starts no request
\* and invokes no operation.
C20_BadTierRejectedFirst ==
  /\ [](\A h \in InvalidHeaders : getTier(h) = Null)
  /\ [][/\ \A h \in InvalidHeaders :
            /\ ~RateLimited(h)
            /\ \A force \in BOOLEAN : ~Submit(h, force)
        /\ resp'.status = 400 =>
             /\ resp'.error = "Missing or invalid X-Tenant-Tier header"
             /\ resp'.tier = Null
             /\ UNCHANGED <<now, rateState, breaker, bulkhead, reqs, submitted,
                            load, ticks, hist, microtasks, batch>>]_vars

\* a request without a valid tier has been answered 400 while a tier has a
\* limiter window under way, its pool full and a task waiting
C20_Witness ==
  /\ resp.status = 400
  /\ \E t \in Limited :
       /\ rateState[t].count > 0
       /\ bulkhead[t].active = bulkhead[t].poolSize
       /\ Len(bulkhead[t].queue) > 0
       /\ \E r \in reqs[t] : r.pc = "inflight" /\ r.invoked

\* the requests of tier t that hold a slot: started and not yet released
Running(t) == {r \in reqs[t] : r.pc # "queued"}

\* C21: in every reachable state the active counter of a tier is the number of
\* tasks started and not yet released, the pending queue holds exactly the tasks
\* not yet started, a released task is counted no more, and
\* submitted = active + queued + completed; each release, of a task that
\* succeeded or failed, takes exactly one task out of the running ones.
C21_ActiveCountsRunning ==
  /\ [](\A t \in TIERS :
         LET bh == bulkhead[t]
             ids == {r.id : r \in reqs[t]}
         IN /\ bh.active = Cardinality(Running(t))
            /\ {bh.queue[i] : i \in 1..Len(bh.queue)} = {r.id : r \in reqs[t] \ Running(t)}
            /\ Len(bh.queue) = Cardinality(reqs[t] \ Running(t))
            /\ hist[t].done \cap ids = {}
            /\ hist[t].done \cup ids = 1..submitted[t]
            /\ Cardinality(ids) = Cardinality(reqs[t])
            /\ submitted[t] = bh.active + Len(bh.queue) + Cardinality(hist[t].done)
            /\ bh.active = (submitted[t] - Len(bh.queue)) - Cardinality(hist[t].done))
  /\ [][\A t \in TIERS : \A r \in reqs[t] :
          Answers(t, r) =>
            /\ Cardinality(hist'[t].done) = Cardinality(hist[t].done) + 1
            /\ bulkhead'[t].active + Len(bulkhead'[t].queue)
                 = bulkhead[t].active + Len(bulkhead[t].queue) - 1]_vars

\* tasks have completed by success and by failure, the pool is full again and a
\* task waits
C21_Witness ==
  \E t \in TIERS :
    /\ Cardinality(hist[t].done) >= 2
    /\ hist[t].streak = 1
    /\ resp.tier = t /\ resp.error = "Service unavailable"
    /\ bulkhead[t].poolSize >= 2
    /\ bulkhead[t].active = bulkhead[t].poolSize
    /\ Len(bulkhead[t].queue) > 0

\* C22: the in-flight probe flag is cleared whenever a call the breaker admitted
\* completes, by success or by failure: after the completion of any protected
\* operation halfOpenInFlight is false.
C22_Original ==
  [][\A t \in TIERS : \A r \in reqs[t] :
       Completes(t, r) => ~breaker'[t].halfOpenInFlight]_vars

\* this step is the completion, by success, of an operation of tier t
Succeeds(t) == \E r \in reqs[t] : Completes(t, r) /\ After(t, r).outcome = "ok"

\* C23: failures is set to 0 exactly when the breaker enters CLOSED or re-enters
\* it on a success: a step that takes the breaker into CLOSED, and every success,
\* leaves failures = 0, and failures decreases in no other step.
C23_FailuresResetOnClose ==
  [][\A t \in TIERS :
       LET a == breaker[t]
           b == breaker'[t]
       IN /\ (a.state # "CLOSED" /\ b.state = "CLOSED") => b.failures = 0 /\ Succeeds(t)
          /\ Succeeds(t) => b.state = "CLOSED" /\ b.failures = 0
          /\ b.failures < a.failures
               => b.state = "CLOSED" /\ b.failures = 0 /\ Succeeds(t)]_vars

\* a success has just closed a breaker that a run of failures had opened: its
\* failures are 0 again
C23_Witness ==
  \E t \in TIERS : \E r \in reqs[t] :
    /\ r.pc = "settled" /\ r.outcome = "ok"
    /\ hist[t].streak = 0
    /\ breaker[t].nextAttempt > 0
    /\ breaker[t].state = "CLOSED" /\ breaker[t].failures = 0

\* C24: the breaker counts consecutive failures only. While CLOSED, failures is
\* the number of operations that failed since the last success and is below the
\* threshold; a success keeps the breaker CLOSED with failures = 0; a failure
\* sets failures to min(failures + 1, threshold); and the breaker leaves CLOSED
\* only for OPEN and only at the failure that brings failures to the threshold.
C24_ConsecutiveFailures ==
  /\ [](\A t \in TIERS :
         breaker[t].state = "CLOSED"
           => /\ breaker[t].failures = hist[t].streak
              /\ breaker[t].failures < breaker[t].failureThreshold)
  /\ [][\A t \in TIERS :
          LET a == breaker[t]
              b == breaker'[t]
          IN /\ \A r \in reqs[t] :
                  (Completes(t, r) /\ a.state = "CLOSED") =>
                    IF After(t, r).outcome = "ok"
                    THEN b.state = "CLOSED" /\ b.failures = 0
                    ELSE /\ b.failures = Min(a.failures + 1, a.failureThreshold)
                         /\ b.state = (IF b.failures = a.failureThreshold
                                        THEN "OPEN" ELSE "CLOSED")
                         /\ b.state = "OPEN"
                              => /\ b.nextAttempt = now + a.resetTimeoutMs
                                 /\ hist'[t].streak = a.failureThreshold
             /\ (a.state = "CLOSED" /\ b.state # "CLOSED")
                  => /\ b.state = "OPEN"
                     /\ \E r \in reqs[t] :
                          Completes(t, r) /\ After(t, r).outcome = "op_failed"]_vars

\* after a success, threshold - 1 operations have failed in a row and the
\* breaker is still CLOSED
C24_Witness ==
  \E t \in TIERS : \E r \in reqs[t] :
    /\ r.pc = "settled" /\ r.outcome = "op_failed"
    /\ breaker[t].state = "CLOSED"
    /\ breaker[t].failures = breaker[t].failureThreshold - 1
    /\ Cardinality(hist[t].done) >= breaker[t].failureThreshold

\* this step admits a request of tier t past checkRateLimit
Admits(t) == submitted'[t] = submitted[t] + 1

\* C25: for every tier with a quota Q, 0 <= count <= Q in every reachable state;
\* the step that admits a request leaves count exactly 1 above the count the
\* check started from (0 when the check starts a new window), which was below Q;
\* and count changes in no step that admits no request.
C25_CountWithinQuota ==
  /\ [](\A t \in Limited :
         0 <= rateState[t].count /\ rateState[t].count <= TIER_CONFIG[t].rateLimit)
  /\ [][\A t \in Limited :
          LET base == IF now - rateState[t].windowStart >= WindowMs
                      THEN 0 ELSE rateState[t].count
          IN /\ Admits(t) => /\ base < TIER_CONFIG[t].rateLimit
                              /\ rateState'[t].count = base + 1
                              /\ hist'[t].arrived = hist[t].arrived + 1
             /\ rateState'[t].count # rateState[t].count => Admits(t)]_vars

\* in a window that is not the first, the quota has just been used up: count = Q
\* after Q admissions and no rejection
C25_Witness ==
  \E t \in Limited :
    /\ rateState[t].count = TIER_CONFIG[t].rateLimit
    /\ rateState[t].windowStart > StartTime
    /\ hist[t].checks = TIER_CONFIG[t].rateLimit
    /\ submitted[t] > TIER_CONFIG[t].rateLimit

\* C26: a check that checkRateLimit rejects leaves the limiter state of the tier
\* as it was: the step that answers 429 changes neither windowStart nor count,
\* and happens inside the current window, never at a window reset.
C26_RejectionChangesNothing ==
  /\ [](\A t \in TIERS :
         LET rl == checkRateLimit(rateState[t], TIER_CONFIG[t].rateLimit, now)
         IN ~rl.allowed => /\ rl.state = rateState[t]
                           /\ now - rateState[t].windowStart < WindowMs)
  /\ [][resp'.status = 429 =>
          /\ rateState' = rateState
          /\ now - rateState[resp'.tier].windowStart < WindowMs
          /\ rateState[resp'.tier].count = TIER_CONFIG[resp'.tier].rateLimit
          /\ hist'[resp'.tier].checks = hist[resp'.tier].checks + 1]_vars

\* a second request in a row has been rejected in a window whose quota is used up
C26_Witness ==
  /\ resp.status = 429
  /\ rateState[resp.tier].count = TIER_CONFIG[resp.tier].rateLimit
  /\ hist[resp.tier].checks >= TIER_CONFIG[resp.tier].rateLimit + 2

\* C27: the breaker is consulted when the bulkhead starts the task of a request,
\* not when the request is submitted. Submitting a request neither reads nor
\* changes the breaker and invokes nothing; an operation is invoked only in the
\* step that starts its task and only if the breaker admits the call at that
\* moment; so a task started while the breaker is OPEN before nextAttempt ends
\* as circuit-open without its operation being invoked, whatever the state of the
\* breaker when the request was submitted.
C27_BreakerConsultedAtStart ==
  [][\A t \in TIERS :
       /\ Admits(t) =>
            /\ breaker'[t] = breaker[t]
            /\ \A q \in reqs'[t] \ reqs[t] :
                 ~q.invoked /\ q.outcome = "none" /\ q.pc \in {"queued", "started"}
       /\ \A r \in reqs[t] :
            /\ Executes(t, r) =>
                 /\ After(t, r).invoked = executeEnter(breaker[t], now).admitted
                 /\ After(t, r).invoked = ~Refused(After(t, r))
                 /\ (breaker[t].state = "OPEN" /\ now < breaker[t].nextAttempt)
                      => /\ Refused(After(t, r))
                         /\ breaker'[t] = breaker[t]
            /\ (~r.invoked /\ ~Executes(t, r))
                 => \A q \in reqs'[t] : q.id = r.id => ~q.invoked]_vars

\* a request queued while the breaker was CLOSED has been started from the queue
\* after the breaker opened and was refused, while another still waits
C27_Witness ==
  \E t \in TIERS : \E r, q \in reqs[t] :
    /\ Refused(r)
    /\ r.queuedUnder = "CLOSED"
    /\ q.pc = "queued" /\ q.id > r.id
    /\ breaker[t].state = "OPEN" /\ now < breaker[t].nextAttempt
    /\ hist[t].streak = FailureThreshold
    /\ Cardinality(hist[t].done) = FailureThreshold

\* C28: when an operation the breaker admitted fails, the breaker does its
\* bookkeeping (failures raised by 1 up to the threshold, OPEN when the state was
\* HALF_OPEN or the threshold is reached) and the call fails with the error of
\* the operation, never with CircuitOpenError, also when that failure opens the
\* breaker; the bulkhead passes the error on as it is, and the caller is answered
\* "Service unavailable".
C28_OriginalErrorSurfaces ==
  [][\A t \in TIERS : \A r \in reqs[t] :
       /\ (Completes(t, r) /\ After(t, r).outcome # "ok") =>
            /\ After(t, r).outcome = "op_failed"
            /\ After(t, r).invoked
            /\ breaker'[t].failures
                 = Min(breaker[t].failures + 1, breaker[t].failureThreshold)
            /\ breaker'[t].state =
                 (IF breaker[t].state = "HALF_OPEN"
                     \/ breaker'[t].failures >= breaker[t].failureThreshold
                  THEN "OPEN" ELSE breaker[t].state)
       /\ (r.pc = "settled" /\ ~Answers(t, r)) => After(t, r).outcome = r.outcome
       /\ (Answers(t, r) /\ r.outcome = "op_failed") =>
            /\ r.invoked
            /\ resp'.status = 503 /\ resp'.error = "Service unavailable"]_vars

\* the failure that opened the breaker has been answered "Service unavailable"
C28_Witness ==
  \E t \in TIERS :
    /\ resp.tier = t /\ resp.error = "Service unavailable"
    /\ breaker[t].state = "OPEN"
    /\ breaker[t].nextAttempt = now + breaker[t].resetTimeoutMs
    /\ hist[t].streak = breaker[t].failureThreshold
    /\ \A q \in reqs[t] : q.pc \in {"queued", "inflight"}

\* C29: BulkheadQueue.run refuses no submission because of load. In every
\* reachable state, a pending queue of the greatest length reached included, run
\* starts the task at once when active < poolSize and otherwise appends it to the
\* pending queue, whatever the length of the queue; and every admitted request
\* is, after its submission, either started or the last of the pending queue,
\* which is then one longer.
C29_RunNeverRejects ==
  /\ [](\A t \in TIERS :
         LET bh == bulkhead[t]
             id == submitted[t] + 1
             r == run(bh, id)
         IN IF bh.active < bh.poolSize
            THEN /\ r.started
                 /\ r.bh.active = bh.active + 1
                 /\ r.bh.queue = bh.queue
            ELSE /\ ~r.started
                 /\ r.bh.active = bh.active
                 /\ r.bh.queue = Append(bh.queue, id)
                 /\ Len(r.bh.queue) = Len(bh.queue) + 1)
  /\ [][\A t \in TIERS :
          Admits(t) =>
            \E q \in reqs'[t] \ reqs[t] :
              /\ q.id = submitted'[t]
              /\ reqs'[t] = reqs[t] \cup {q}
              /\ IF bulkhead[t].active < bulkhead[t].poolSize
                 THEN /\ q.pc = "started"
                      /\ bulkhead'[t].active = bulkhead[t].active + 1
                      /\ bulkhead'[t].queue = bulkhead[t].queue
                 ELSE /\ q.pc = "queued"
                      /\ bulkhead'[t].active = bulkhead[t].active
                      /\ bulkhead'[t].queue = Append(bulkhead[t].queue, q.id)]_vars

\* the request submitted last, to a full pool with a task already pending, is the
\* last of the pending queue
C29_Witness ==
  \E t \in TIERS : \E q \in reqs[t] :
    /\ q.id = submitted[t] /\ q.pc = "queued"
    /\ resp = NoResp
    /\ bulkhead[t].active = bulkhead[t].poolSize
    /\ Len(bulkhead[t].queue) = MaxQueue
    /\ bulkhead[t].queue[MaxQueue] = q.id

\* C30: in every reachable state of a breaker 0 <= failures <= threshold, and
\* failures = threshold exactly when the state is OPEN or HALF_OPEN, so that the
\* state is CLOSED if and only if failures < threshold.
C30_FailuresTellState ==
  \A t \in TIERS :
    /\ 0 <= breaker[t].failures
    /\ breaker[t].failures <= breaker[t].failureThreshold
    /\ breaker[t].state \in {"CLOSED", "OPEN", "HALF_OPEN"}
    /\ (breaker[t].failures = breaker[t].failureThreshold)
         <=> (breaker[t].state \in {"OPEN", "HALF_OPEN"})
    /\ (breaker[t].state = "CLOSED")
         <=> (breaker[t].failures < breaker[t].failureThreshold)

\* a failure has re-opened the breaker while the probe and a call admitted
\* before it were in flight together: failures is still the threshold
C30_Witness ==
  \E t \in TIERS : \E p, q \in reqs[t] :
    /\ p.probe /\ p.pc = "inflight"
    /\ ~q.probe /\ q.pc = "settled" /\ q.outcome = "op_failed"
    /\ breaker[t].state = "OPEN"
    /\ breaker[t].failures = breaker[t].failureThreshold
    /\ hist[t].streak > breaker[t].failureThreshold

\* C31: the bulkhead is work-conserving: in every reachable state a tier whose
\* pending queue is not empty, or one of whose requests has not been started,
\* has active = poolSize; no task waits while a slot is free.
C31_WorkConserving ==
  \A t \in TIERS :
    (Len(bulkhead[t].queue) > 0 \/ \E r \in reqs[t] : r.pc = "queued")
      => /\ bulkhead[t].poolSize >= 1
         /\ bulkhead[t].active = bulkhead[t].poolSize
         /\ Cardinality(Running(t)) = bulkhead[t].poolSize

\* after several completions, the last a success, the slot freed was taken at
\* once by the head of the queue: the pool is full and a task still waits
C31_Witness ==
  \E t \in TIERS : \E r, q \in reqs[t] :
    /\ resp.tier = t /\ resp.status = 200
    /\ Cardinality(hist[t].done) >= 2
    /\ r.pc = "started" /\ r.queuedUnder # Null /\ q.pc = "queued"
    /\ bulkhead[t].active = bulkhead[t].poolSize

\* the ids of the tasks of tier t that have been started (given a slot)
StartedIds(t) == (1..submitted[t]) \ {r.id : r \in reqs[t] \ Running(t)}

\* C32: no barging: within a tier tasks start in the order they were submitted.
\* In every reachable state the tasks started so far are the first k submitted,
\* the pending queue holds the others in submission order, and the tasks whose
\* body has been called are the first of those started; every step starts at
\* most one task, the earliest submitted that has not started.
C32_NoBarging ==
  /\ [](\A t \in TIERS :
         LET bh == bulkhead[t] IN
         /\ StartedIds(t) = 1..(submitted[t] - Len(bh.queue))
         /\ \A i \in 1..Len(bh.queue) :
              bh.queue[i] = submitted[t] - Len(bh.queue) + i
         /\ hist[t].ran = 1..Cardinality(hist[t].ran)
         /\ hist[t].ran \subseteq StartedIds(t))
  /\ [][\A t \in TIERS :
          /\ Cardinality(StartedIds(t)') <= Cardinality(StartedIds(t)) + 1
          /\ \A id \in StartedIds(t)' \ StartedIds(t) :
               /\ id = Cardinality(StartedIds(t)) + 1
               /\ \A r \in reqs[t] : r.pc = "queued" => id <= r.id]_vars

\* after tasks had waited and completed, the request submitted last found a
\* free slot and was started at once, behind every task submitted before it
C32_Witness ==
  \E t \in TIERS : \E q \in reqs[t] :
    /\ q.id = submitted[t] /\ q.pc = "started" /\ q.queuedUnder = Null
    /\ resp = NoResp
    /\ submitted[t] > bulkhead[t].poolSize + 1
    /\ hist[t].done # {}
    /\ \E r \in reqs[t] : r.id < q.id /\ r.pc = "inflight"

\* C33: the quota is consumed at admission whatever happens downstream. The
\* limiter state of a tier changes only in the step that checks an arriving
\* request; no step that starts, completes or answers a request changes it, be
\* the request refused by the breaker or its operation failed; count goes down
\* only in a check that starts a new window; and inside a window count is the
\* number of requests admitted in it.
C33_QuotaNotRefunded ==
  /\ [](\A t \in Limited :
         now - rateState[t].windowStart < WindowMs
           => rateState[t].count = hist[t].admitted)
  /\ [][\A t \in TIERS :
          /\ rateState'[t] # rateState[t]
               => /\ hist'[t].arrived = hist[t].arrived + 1
                  /\ Admits(t)
          /\ (\E r \in reqs[t] : Executes(t, r) \/ Completes(t, r) \/ Answers(t, r))
               => rateState'[t] = rateState[t]
          /\ rateState'[t].count < rateState[t].count
               => /\ now - rateState[t].windowStart >= WindowMs
                  /\ rateState'[t].windowStart = now
                  /\ rateState'[t].count = 1]_vars

\* a tier with a quota has answered one admitted request "Circuit breaker open"
\* after the operations of the others failed: count is still the number of
\* requests admitted
C33_Witness ==
  \E t \in Limited :
    /\ resp.tier = t /\ resp.error = "Circuit breaker open"
    /\ hist[t].streak >= FailureThreshold
    /\ rateState[t].count = submitted[t]
    /\ rateState[t].count > FailureThreshold

\* the calls of tier t the breaker admitted whose operation has not completed
InFlightCalls(t) == {r \in reqs[t] : r.invoked /\ r.pc \in {"inflight", "thrown"}}

\* C34: the breaker cannot lock itself out. In every reachable state, HALF_OPEN
\* with halfOpenInFlight = true implies that a call the breaker admitted as probe
\* is still in flight; and, every operation completing, the breaker does not
\* stay HALF_OPEN with the flag set.
C34_NoLockout ==
  /\ [](\A t \in TIERS :
         (breaker[t].state = "HALF_OPEN" /\ breaker[t].halfOpenInFlight)
           => /\ InFlightCalls(t) # {}
              /\ InFlightProbes(t) # {})
  /\ \A t \in TIERS :
       (breaker[t].state = "HALF_OPEN" /\ breaker[t].halfOpenInFlight)
         ~> ~(breaker[t].state = "HALF_OPEN" /\ breaker[t].halfOpenInFlight)

\* while the probe is in flight the breaker, HALF_OPEN with the flag set, has
\* refused another call
C34_Witness ==
  \E t \in TIERS :
    /\ breaker[t].state = "HALF_OPEN" /\ breaker[t].halfOpenInFlight
    /\ resp.tier = t /\ resp.error = "Circuit breaker open"
    /\ Cardinality(InFlightProbes(t)) = 1
    /\ InFlightCalls(t) = InFlightProbes(t)

\* C35: the passage of time alone changes no breaker field. A step in which the
\* clock advances leaves every breaker as it was; a breaker changes only in a
\* step that calls execute or completes an operation of its tier; the breaker
\* goes from OPEN to HALF_OPEN only in a call of execute that arrives with
\* now >= nextAttempt; and a metrics snapshot taken after nextAttempt, no call
\* having arrived, still reports OPEN.
C35_TimeAloneChangesNothing ==
  [][/\ now' # now => breaker' = breaker
     /\ \A t \in TIERS :
          /\ breaker'[t] # breaker[t]
               => \E r \in reqs[t] : Executes(t, r) \/ Completes(t, r)
          /\ (breaker[t].state = "OPEN" /\ breaker'[t].state = "HALF_OPEN")
               => /\ now >= breaker[t].nextAttempt
                  /\ \E r \in reqs[t] : Executes(t, r) /\ After(t, r).invoked
          /\ (resp'.payload # NoPayload /\ breaker[t].state = "OPEN")
               => /\ resp'.payload[t].circuitBreaker.state = "OPEN"
                  /\ breaker'[t].state = "OPEN"]_vars

\* more than the open period after the breaker opened, no call having arrived,
\* the metrics snapshot reports the breaker OPEN
C35_Witness ==
  \E t \in TIERS :
    /\ resp.payload # NoPayload
    /\ resp.payload[t].circuitBreaker.state = "OPEN"
    /\ breaker[t].state = "OPEN"
    /\ now > breaker[t].nextAttempt

\* C36: nextAttempt is assigned only when the breaker enters OPEN from CLOSED or
\* HALF_OPEN and does not change while the breaker stays OPEN, so that the open
\* period ends exactly resetTimeout after the breaker opened.
C36_Original ==
  [][\A t \in TIERS :
       /\ (breaker[t].state = "OPEN" /\ breaker'[t].state = "OPEN")
            => breaker'[t].nextAttempt = breaker[t].nextAttempt
       /\ breaker'[t].nextAttempt # breaker[t].nextAttempt
            => /\ breaker[t].state \in {"CLOSED", "HALF_OPEN"}
               /\ breaker'[t].state = "OPEN"
               /\ breaker'[t].nextAttempt = now + breaker[t].resetTimeoutMs]_vars

====
